---- MODULE Spec2Model ----
(***************************************************************************)
(* One ServerConnection (core/server_manager.py) and the WebSocketClient   *)
(* it owns (core/ws_client.py), as asyncio tasks that interleave at their  *)
(* await points:                                                           *)
(*   - the supervisor task running WebSocketClient.start,                  *)
(*   - the heartbeat task running WebSocketClient._heartbeat_loop,         *)
(*   - a caller inside ServerConnection.stop,                              *)
(*   - callers of ServerConnection.start and of the outbound helpers,      *)
(*   - the remote server and the transport (frames, close, failures).      *)
(* Code between two awaits is one atomic step.                             *)
(***************************************************************************)
EXTENDS Integers, Sequences, FiniteSets, TLC

VARIABLES
    running,          \* WebSocketClient._running
    connected,        \* WebSocketClient._connected
    reconnect_delay,  \* WebSocketClient._reconnect_delay
    ws,               \* the newest socket ws_connect returned: none / open /
                      \* broken (transport gone) / closing (close() awaited) /
                      \* drained (closing, the arrived frame handed over) / closed
    wsRef,            \* WebSocketClient._ws references that socket (is not None)
    closeOld,         \* the close() that disconnect() awaits is of an older socket
    session,          \* WebSocketClient._session is not None
    hb_task,          \* WebSocketClient._heartbeat_task is not None
    hbpc,             \* where the heartbeat task referenced by hb_task is
    session_id,       \* WebSocketClient._session_id
    server_info,      \* WebSocketClient._server_info
    task,             \* ServerConnection._task: none / live / done / failed / cancelled
    pc,               \* the await the supervisor task is suspended at
    cancelling,       \* the supervisor task is unwinding a CancelledError
    stoppc,           \* the await a caller of ServerConnection.stop is suspended at
    rest,             \* RestClient._session is an open session
    ev,               \* what the last step did (frames written, callbacks, results)
    fails,            \* connect() calls that returned False since the last True
    lost,             \* the running task lost a connection and began no backoff sleep since
    wantRun,          \* start() was called and stop() was not called since
    stopped,          \* stop() returned and start() was not called since
    stopReq,          \* stop() was called and start() was not called since
    sawDisconnect,    \* a DISCONNECT frame was dispatched on the current socket
    liveSup,          \* supervisor tasks created and not yet finished
    runFailed,        \* a connect() of the live supervisor task returned False
    io,               \* the traffic of one established connection: frames that
                      \* arrived and wait in the socket, the order of arrival
                      \* and of dispatch, who is inside a socket write
    reg,              \* a ServerManager: its map, its handler slots, the
                      \* ServerConnection objects it created, its callers
    fx                \* one call of a function of the codec or of the
                      \* RestClient: its argument and what it gave

vars == <<running, connected, reconnect_delay, ws, wsRef, closeOld, session, hb_task, hbpc,
          session_id, server_info, task, pc, cancelling, stoppc, rest,
          ev, fails, lost, wantRun, stopped, stopReq, sawDisconnect, liveSup,
          runFailed, io, reg, fx>>

\* the variables of the one connection modelled in detail
cvarsNoFx == <<running, connected, reconnect_delay, ws, wsRef, closeOld, session,
               hb_task, hbpc, session_id, server_info, task, pc, cancelling, stoppc,
               rest, ev, fails, lost, wantRun, stopped, stopReq, sawDisconnect,
               liveSup, runFailed, io>>

\* every variable but the registry
cvars == <<cvarsNoFx, fx>>

(***************************************************************************)
(* Program constants (core/ws_client.py)                                   *)
(***************************************************************************)
DEFAULT_RECONNECT_DELAY == 1

(***************************************************************************)
(* Bounds of the model                                                     *)
(***************************************************************************)
\* the constructor's max_reconnect_delay (default MAX_RECONNECT_DELAY): a small
\* maximum is reached after few failed connects
max_reconnect_delay == 4

\* the count of consecutive failed connects saturates here; 2^(FailCap-1) is
\* already above max_reconnect_delay
FailCap == 4

Min(a, b) == IF a < b THEN a ELSE b

RECURSIVE Pow2(_)
Pow2(n) == IF n <= 0 THEN 1 ELSE 2 * Pow2(n - 1)

(***************************************************************************)
(* Protocol: message types and frames                                      *)
(***************************************************************************)
MessageType ==
    {"HEARTBEAT", "HEARTBEAT_ACK", "CONNECTION_ACK", "CHAT_REQUEST",
     "CHAT_RESPONSE", "MESSAGE_FORWARD", "MESSAGE_INCOMING", "PLAYER_JOIN",
     "PLAYER_QUIT", "COMMAND_REQUEST", "COMMAND_RESPONSE", "STATUS_UPDATE",
     "ERROR", "DISCONNECT"}

\* a decoder that keeps a type string it does not know
safe_enumRaw(value) == value

\* safe_enum(MessageType, value, MessageType.ERROR)
safe_enum(value) == IF value \in MessageType THEN value ELSE "ERROR"

\* ids the server puts on its frames
MsgIds == {"x", "y"}

\* a frame that has no "type" key
Missing == "<missing>"

\* type strings the server sends in steady state ("BOGUS" is no MessageType)
WireTypes == {"HEARTBEAT", "HEARTBEAT_ACK", "DISCONNECT", "ERROR",
              "CONNECTION_ACK", "CHAT_REQUEST", "BOGUS", Missing}

\* the text frames the server sends: heartbeats with either id, one frame of
\* every other type
TextFrames ==
    [type : {"HEARTBEAT"}, id : MsgIds] \cup [type : WireTypes \ {"HEARTBEAT"}, id : {"x"}]

\* the CONNECTION_ACK payloads the server may send: (sessionId, serverInfo.name)
Acks == { [sid |-> "s1", info |-> "Box"], [sid |-> "s2", info |-> "Hub"] }

NoFrame == [type |-> "-", id |-> "-"]

\* MCMessage.from_dict: the decoded type and id of a text frame; the type is
\* safe_enum(MessageType, data.get("type", "ERROR"), MessageType.ERROR)
MCMessage_from_dict(data) ==
    [type |-> safe_enum(IF data.type = Missing THEN "ERROR" ELSE data.type),
     id |-> data.id]

Helpers == {"send_message", "send_chat_response", "send_incoming_message",
            "send_command_request"}

\* the type of the frame each outbound helper builds
HelperFrame(h) ==
    [type |-> CASE h = "send_chat_response" -> "CHAT_RESPONSE"
                [] h = "send_incoming_message" -> "MESSAGE_INCOMING"
                [] h = "send_command_request" -> "COMMAND_REQUEST"
                [] OTHER -> "STATUS_UPDATE",
     id |-> "u"]

(***************************************************************************)
(* The traffic of one connection, before any                               *)
(***************************************************************************)
Io0 ==
    [inbox |-> << >>,       \* frames that arrived and were not received yet
     arrived |-> << >>,     \* every frame that arrived, in order
     dispatched |-> << >>,  \* every frame whose dispatch began, in order
     open |-> 0,            \* dispatches begun and not completed
     writing |-> {}]        \* who is suspended inside _ws.send_json

(***************************************************************************)
(* ServerManager (core/server_manager.py), before any call                 *)
(***************************************************************************)
\* what the last step of the registry did
RegEv0(op) ==
    [op |-> op,           \* the call or event
     id |-> "-",          \* the server id it was given
     ret |-> "-",         \* what the call returned
     kind |-> "-",        \* the kind of event a connection raised
     to |-> "-",          \* the handler the event went to
     acted |-> {},        \* the connections the call started or stopped
     todo |-> {},         \* the entries of _servers when stop_all was called
     wrote |-> 0,         \* the connection whose helper the call delegated to
     res |-> "-"]         \* what that helper returned

Reg0 ==
    [servers |-> << >>,   \* _servers in insertion order; a removed entry leaves a hole
     on_message |-> "None", on_connect |-> "None", on_disconnect |-> "None",
     regs |-> 0,          \* set_*_handler calls so far
     objs |-> << >>,      \* the ServerConnection objects created so far
     sa |-> [st |-> "idle", pos |-> 0, n |-> 0, cur |-> 0, todo |-> {}, done |-> {}],
                          \* the stop_all in progress: its dict iterator, the
                          \* connection whose stop() it awaits
     ss |-> 0,            \* the connection whose stop() a stop_server awaits
     snap |-> [held |-> FALSE, live |-> FALSE, map |-> <<0, 0>>],
                          \* the map a get_all_servers call returned: whether
                          \* the caller holds one, whether it is the registry's
                          \* own dict, and its connection per id if it is not
     ev |-> RegEv0("init")]

(***************************************************************************)
(* The record of the last step                                             *)
(***************************************************************************)
Ev0(op) ==
    [op |-> op,               \* the step taken
     frame |-> NoFrame,       \* the inbound frame it consumed
     out |-> << >>,           \* the frames it wrote to the socket
     cb |-> "none",           \* the callback it invoked
     ret |-> "-",             \* what the call it completed returned
     first |-> "-",           \* what the handshake of the connect() it completed received
     slept |-> 0,             \* the delay of the backoff sleep it began
     conn |-> FALSE,          \* it began a connect() attempt
     fin |-> FALSE,           \* it ran the finally block of start()
     preConn |-> connected,   \* _connected before the step
     preRun |-> running,      \* _running before the step
     preDisc |-> sawDisconnect,
     preOpen |-> wsRef /\ ws = "open"]   \* _ws was an open socket before the step

Cur ==
    [running |-> running, connected |-> connected,
     reconnect_delay |-> reconnect_delay, ws |-> ws, wsRef |-> wsRef,
     closeOld |-> closeOld, session |-> session,
     hb_task |-> hb_task, hbpc |-> hbpc, session_id |-> session_id,
     server_info |-> server_info, task |-> task, pc |-> pc,
     cancelling |-> cancelling, stoppc |-> stoppc, rest |-> rest,
     ev |-> ev, fails |-> fails, lost |-> lost,
     wantRun |-> wantRun, stopped |-> stopped, stopReq |-> stopReq,
     sawDisconnect |-> sawDisconnect, liveSup |-> liveSup,
     runFailed |-> runFailed, io |-> io]

\* the state a step starts from, with a fresh record of the step
At(op) == [Cur EXCEPT !.ev = Ev0(op)]

Set(s) ==
    /\ running' = s.running
    /\ connected' = s.connected
    /\ reconnect_delay' = s.reconnect_delay
    /\ ws' = s.ws
    /\ wsRef' = s.wsRef
    /\ closeOld' = s.closeOld
    /\ session' = s.session
    /\ hb_task' = s.hb_task
    /\ hbpc' = s.hbpc
    /\ session_id' = s.session_id
    /\ server_info' = s.server_info
    /\ task' = s.task
    /\ pc' = s.pc
    /\ cancelling' = s.cancelling
    /\ stoppc' = s.stoppc
    /\ rest' = s.rest
    /\ ev' = s.ev
    /\ fails' = s.fails
    /\ lost' = s.lost
    /\ wantRun' = s.wantRun
    /\ stopped' = s.stopped
    /\ stopReq' = s.stopReq
    /\ sawDisconnect' = s.sawDisconnect
    /\ liveSup' = s.liveSup
    /\ runFailed' = s.runFailed
    /\ io' = s.io
    /\ UNCHANGED <<reg, fx>>

InitBase ==
    /\ running = FALSE
    /\ connected = FALSE
    /\ reconnect_delay = DEFAULT_RECONNECT_DELAY
    /\ ws = "none"
    /\ wsRef = FALSE
    /\ closeOld = FALSE
    /\ session = FALSE
    /\ hb_task = FALSE
    /\ hbpc = "none"
    /\ session_id = ""
    /\ server_info = "None"
    /\ task = "none"
    /\ pc = "end"
    /\ cancelling = FALSE
    /\ stoppc = "idle"
    /\ rest = FALSE
    /\ ev = [op |-> "init", frame |-> NoFrame, out |-> << >>, cb |-> "none",
             ret |-> "-", first |-> "-", slept |-> 0, conn |-> FALSE, fin |-> FALSE,
             preConn |-> FALSE, preRun |-> FALSE, preDisc |-> FALSE,
             preOpen |-> FALSE]
    /\ fails = 0
    /\ lost = FALSE
    /\ wantRun = FALSE
    /\ stopped = FALSE
    /\ stopReq = FALSE
    /\ sawDisconnect = FALSE
    /\ liveSup = 0
    /\ runFailed = FALSE
    /\ io = Io0
    /\ reg = Reg0

\* no function call was made
Fx0 == [op |-> "none"]

Init == InitBase /\ fx = Fx0

(***************************************************************************)
(* WebSocketClient: the code between awaits, as functions of the state     *)
(***************************************************************************)

\* _send: write one frame unless there is no socket or it is closed; a write
\* that raises (a socket whose transport is gone; `wr` is whether a socket that
\* is being closed still takes the write) is caught and answered False
Send(s, data, wr) ==
    IF ~s.wsRef \/ s.ws = "closed"
    THEN [s EXCEPT !.ev.ret = "False"]
    ELSE IF s.ws = "open" \/ (s.ws \in {"closing", "drained"} /\ wr)
         THEN [s EXCEPT !.ev.out = Append(@, data), !.ev.ret = "True"]
         ELSE [s EXCEPT !.ev.ret = "False"]

\* a reply that carries a fresh id instead of the id of the HEARTBEAT frame
SendHeartbeatAckFresh(s, msg_id, wr) ==
    [Send(s, [type |-> "HEARTBEAT_ACK", id |-> "uuid"], wr) EXCEPT !.ev.ret = "-"]

\* _send_heartbeat_ack: the result of _send is dropped
SendHeartbeatAck(s, msg_id, wr) ==
    [Send(s, [type |-> "HEARTBEAT_ACK", id |-> msg_id], wr) EXCEPT !.ev.ret = "-"]

\* _send_heartbeat: a fresh uuid as id
SendHeartbeat(s, wr) ==
    [Send(s, [type |-> "HEARTBEAT", id |-> "uuid"], wr) EXCEPT !.ev.ret = "-"]

\* a cancel() that never reaches the heartbeat task
CancelHeartbeatLost(s) == s

\* task.cancel() on the heartbeat task: nothing if it already finished
CancelHeartbeat(s) ==
    IF s.hbpc \in {"new", "sleep"} THEN [s EXCEPT !.hbpc = "cancelled"] ELSE s

\* the supervisor task finishes
TaskEnd(s, how) ==
    [s EXCEPT !.task = how, !.pc = "end", !.cancelling = FALSE,
              !.lost = FALSE, !.liveSup = @ - 1, !.runFailed = FALSE]

\* a finally block that calls on_disconnect without looking at _running
FinallyCallsAlways(s) ==
    LET s1 == [s EXCEPT !.connected = FALSE, !.ev.fin = TRUE]
        s2 == IF s1.hb_task THEN CancelHeartbeat(s1) ELSE s1
    IN  [s2 EXCEPT !.pc = "on_disconnect", !.ev.cb = "on_disconnect",
                   !.lost = TRUE]

\* start(), the finally block after the receive loop: mark disconnected,
\* cancel the heartbeat task, call on_disconnect if still running; without
\* the callback the while loop sees _running false and the task ends
Finally(s) ==
    LET s1 == [s EXCEPT !.connected = FALSE, !.ev.fin = TRUE]
        s2 == IF s1.hb_task THEN CancelHeartbeat(s1) ELSE s1
    IN  IF s2.running
        THEN [s2 EXCEPT !.pc = "on_disconnect", !.ev.cb = "on_disconnect",
                        !.lost = TRUE]
        ELSE TaskEnd(s2, IF s2.cancelling THEN "cancelled" ELSE "done")

\* start(): create the heartbeat task and enter _receive_loop, which returns
\* at once when there is no socket
EnterReceive(s) ==
    LET s1 == [s EXCEPT !.hb_task = TRUE, !.hbpc = "new"]
    IN  IF ~s1.wsRef THEN Finally(s1) ELSE [s1 EXCEPT !.pc = "recv"]

\* start(), the top of the while loop, up to the next await
LoopTop(s) ==
    IF ~s.running THEN TaskEnd(s, "done")
    ELSE IF ~s.connected
         THEN \* connect(): create the session if missing, await ws_connect
              [s EXCEPT !.session = TRUE, !.pc = "open", !.ev.conn = TRUE]
         ELSE EnterReceive(s)

\* connect() returned False: log and begin the backoff sleep
ConnectFailed(s) ==
    [s EXCEPT !.pc = "sleep", !.ev.ret = "False",
              !.ev.slept = s.reconnect_delay,
              !.fails = Min(@ + 1, FailCap), !.lost = FALSE,
              !.runFailed = TRUE]

\* connect(), a text frame of type CONNECTION_ACK: store session id and
\* server info, mark connected, reset the delay, call on_connect
ConnectAck(s, a) ==
    [s EXCEPT !.session_id = a.sid, !.server_info = a.info,
              !.connected = TRUE,
              !.reconnect_delay = DEFAULT_RECONNECT_DELAY,
              !.pc = "on_connect", !.ev.cb = "on_connect"]

\* _handle_message
HandleMessage(s, msg, wr) ==
    CASE msg.type = "HEARTBEAT" -> SendHeartbeatAck(s, msg.id, wr)
      [] msg.type = "HEARTBEAT_ACK" -> s
      [] msg.type = "DISCONNECT" ->
            [s EXCEPT !.connected = FALSE, !.sawDisconnect = TRUE]
      [] msg.type = "ERROR" -> s
      [] OTHER -> [s EXCEPT !.pc = "on_message", !.ev.cb = "on_message"]

\* a CancelledError delivered to the supervisor task at the await it is
\* suspended at: inside the try block of start() the finally block runs,
\* elsewhere the error leaves start() at once
Cancel(s) ==
    IF s.task # "live" THEN s
    ELSE IF s.pc \in {"recv", "on_message"}
         THEN Finally([s EXCEPT !.cancelling = TRUE])
         ELSE TaskEnd(s, "cancelled")

(***************************************************************************)
(* The supervisor task: WebSocketClient.start                              *)
(***************************************************************************)

\* the task's first step: _running = True, then the loop
SupStart ==
    /\ task = "live" /\ pc = "init"
    /\ Set(LoopTop([At("sup_start") EXCEPT !.running = TRUE]))

\* connect(): ws_connect returns a new socket, which _ws then references, or
\* raises. Establishing a connection takes network round trips, and so does
\* the close() of a socket; the close() of a session over ws:// or http://
\* takes none, so no connection is established while stop() awaits one, and
\* none on a session that is closed.
ConnectOpen(ok) ==
    /\ task = "live" /\ pc = "open"
    /\ ok => (session /\ stoppc \in {"idle", "ws_close"})
    /\ Set(IF ok
           THEN [At("ws_connect") EXCEPT !.ws = "open", !.wsRef = TRUE,
                                         !.closeOld = (stoppc = "ws_close"),
                                         !.pc = "handshake",
                                         !.sawDisconnect = FALSE]
           ELSE ConnectFailed([At("connect_return") EXCEPT !.ev.first = "refused"]))

\* what the first receive() of a connect() can yield, by the socket's state; a
\* socket that stop() is closing still hands over a frame that had arrived
HandshakeOutcomes(w) ==
    CASE w = "open" -> {"ack", "ack_bad", "text", "binary", "badjson",
                        "timeout", "close"}
      [] w = "broken" -> {"timeout", "close"}
      [] w = "closing" -> {"ack", "close"}
      [] OTHER -> {"close"}

\* connect(): the first frame, or the timeout
\*   ack      a text frame of type CONNECTION_ACK
\*   ack_bad  one whose serverInfo is no object: ServerInfo.from_dict raises
\*            after the session id was stored
\*   text     a text frame of another type; binary, badjson, timeout, close
Handshake(o, a) ==
    /\ task = "live" /\ pc = "handshake"
    /\ o \in HandshakeOutcomes(ws)
    /\ LET s == [At(IF o = "ack" THEN "handshake" ELSE "connect_return")
                   EXCEPT !.ev.first = o,
                          !.ws = IF o = "close" /\ ws \in {"open", "broken"}
                                 THEN "closed"
                                 ELSE IF ws = "closing" THEN "drained" ELSE ws]
       IN  Set(CASE o = "ack" -> ConnectAck(s, a)
                 [] o = "ack_bad" -> ConnectFailed([s EXCEPT !.session_id = a.sid])
                 [] OTHER -> ConnectFailed(s))

\* on_connect returned: connect() returns True, start() goes on to the
\* heartbeat task and the receive loop
OnConnectReturn ==
    /\ task = "live" /\ pc = "on_connect"
    /\ Set(EnterReceive([At("connect_return") EXCEPT !.ev.ret = "True",
                                                     !.ev.first = "ack",
                                                     !.fails = 0]))

\* on_connect raised: caught by connect()'s `except Exception`, which
\* returns False
OnConnectRaise ==
    /\ task = "live" /\ pc = "on_connect"
    /\ Set(ConnectFailed([At("connect_return") EXCEPT !.ev.first = "ack"]))

\* the backoff sleep is over: double the delay up to the maximum, continue
SleepDone ==
    /\ task = "live" /\ pc = "sleep"
    /\ Set(LoopTop([At("sleep_done") EXCEPT
            !.reconnect_delay = Min(reconnect_delay * 2, max_reconnect_delay)]))

\* _receive_loop: a text frame arrives, is decoded and dispatched; a socket
\* that stop() is closing still hands over the one frame that had arrived
RecvText(f, wr) ==
    /\ task = "live" /\ pc = "recv" /\ ws \in {"open", "closing"}
    /\ Set(HandleMessage([At("dispatch") EXCEPT
                !.ev.frame = f,
                !.ws = IF ws = "closing" THEN "drained" ELSE ws],
            MCMessage_from_dict(f), wr))

\* _receive_loop: a text frame that is no JSON (logged), or a binary frame
RecvSkip(k) ==
    /\ task = "live" /\ pc = "recv" /\ ws = "open"
    /\ Set(At(k))

\* _receive_loop ends: the socket reports an error or the close, or raises
RecvEnd ==
    /\ task = "live" /\ pc = "recv"
    /\ Set(Finally([At("recv_end") EXCEPT
            !.ws = IF ws \in {"open", "broken"} THEN "closed" ELSE ws]))

\* a receive loop that an exception of on_message would end
OnMessageDoneFatal(r) ==
    /\ task = "live" /\ pc = "on_message"
    /\ Set(IF r = "raised"
           THEN Finally([At("on_message_done") EXCEPT !.ev.ret = r])
           ELSE [At("on_message_done") EXCEPT !.pc = "recv", !.ev.ret = r])

\* on_message returned or raised (caught and logged): back to the loop
OnMessageDone(r) ==
    /\ task = "live" /\ pc = "on_message"
    /\ Set([At("on_message_done") EXCEPT !.pc = "recv", !.ev.ret = r])

\* on_disconnect returned: back to the top of the loop, unless cancelled
OnDisconnectReturn ==
    /\ task = "live" /\ pc = "on_disconnect"
    /\ Set(IF cancelling
           THEN TaskEnd(At("on_disconnect_done"), "cancelled")
           ELSE LoopTop(At("on_disconnect_done")))

\* on_disconnect raised: the exception leaves the finally block and start()
OnDisconnectRaise ==
    /\ task = "live" /\ pc = "on_disconnect"
    /\ Set(TaskEnd([At("on_disconnect_done") EXCEPT !.ev.ret = "raised"],
                   "failed"))

(***************************************************************************)
(* The heartbeat task: WebSocketClient._heartbeat_loop                     *)
(***************************************************************************)
HbStart ==
    /\ hbpc = "new"
    /\ Set([At("hb_start") EXCEPT
            !.hbpc = IF connected /\ running THEN "sleep" ELSE "done"])

HbTick(wr) ==
    /\ hbpc = "sleep"
    /\ LET s == IF connected THEN SendHeartbeat(At("hb_tick"), wr)
                ELSE At("hb_tick")
       IN  Set([s EXCEPT !.hbpc = IF connected /\ running THEN "sleep"
                                  ELSE "done"])

(***************************************************************************)
(* Callers of the outbound helpers, the REST client, the transport         *)
(***************************************************************************)
\* send_message, send_chat_response, send_incoming_message and
\* send_command_request build a frame and return what _send returns
SendCall(h, wr) ==
    /\ h \in Helpers
    /\ Set(Send(At(h), HelperFrame(h), wr))

\* RestClient._get_session: a request creates the HTTP session
RestQuery ==
    /\ rest \in BOOLEAN
    /\ Set([At("rest_query") EXCEPT !.rest = TRUE])

\* the transport under an open socket dies; the socket object is not closed yet
SocketBreak ==
    /\ ws = "open"
    /\ Set([At("socket_break") EXCEPT !.ws = "broken"])

(***************************************************************************)
(* ServerConnection.start and ServerConnection.stop                        *)
(***************************************************************************)

\* a start() that creates a task whatever the state of the last one
StartSpawnsAlways(s) == TRUE

\* start(): `self._task is None or self._task.done()`
StartSpawns(s) == s.task # "live"

\* start(): create the supervisor task unless one is live; returns at once
StartCall ==
    /\ task \in {"none", "live", "done", "cancelled", "failed"}
    /\ LET s == [At("start") EXCEPT
                !.stopped = FALSE, !.stopReq = FALSE,
                !.wantRun = IF stoppc = "idle" THEN TRUE ELSE @]
       IN  Set(IF StartSpawns(s)
            THEN [s EXCEPT !.task = "live", !.pc = "init", !.liveSup = @ + 1,
                           !.ev.ret = "spawned"]
            ELSE [s EXCEPT !.ev.ret = "noop"])

\* stop() returns
StopReturn(s) ==
    [s EXCEPT !.stoppc = "idle", !.stopped = TRUE, !.ev.op = "stop_return"]

\* stop(): cancel the supervisor task if it is not done, and await it
StopCancel(s) ==
    LET s1 == Cancel(s)
    IN  IF s1.task = "live" THEN [s1 EXCEPT !.stoppc = "join"]
        ELSE StopReturn(s1)

\* stop(): rest_client.close() awaits the HTTP session's close if there is one
StopAfterSession(s) ==
    IF s.rest THEN [s EXCEPT !.stoppc = "rest_close"] ELSE StopCancel(s)

\* disconnect(): after the socket, the session's close is awaited if there is
\* one; it takes the transport from a socket that is still open
StopAfterWs(s) ==
    IF s.session
    THEN [s EXCEPT !.stoppc = "sess_close",
                   !.ws = IF @ = "open" THEN "broken" ELSE @]
    ELSE StopAfterSession(s)

\* disconnect() up to its first await: clear both flags, cancel and forget
\* the heartbeat task, begin closing the socket if there is one not closed
Disconnect(s) ==
    LET s1 == [s EXCEPT !.running = FALSE, !.connected = FALSE]
        s2 == IF s1.hb_task
              THEN [CancelHeartbeat(s1) EXCEPT !.hb_task = FALSE, !.hbpc = "none"]
              ELSE s1
    IN  IF s2.wsRef /\ s2.ws \in {"open", "broken"}
        THEN [s2 EXCEPT !.ws = "closing", !.stoppc = "ws_close"]
        ELSE StopAfterWs(s2)

\* stop() is called (one call at a time)
StopBegin ==
    /\ stoppc = "idle"
    /\ Set(Disconnect([At("stop") EXCEPT !.wantRun = FALSE, !.stopReq = TRUE]))

\* disconnect(): the socket's close() returned: self._ws = None, whichever
\* socket _ws references by now
StopWsClosed ==
    /\ stoppc = "ws_close"
    /\ Set(StopAfterWs([At("stop_ws_closed") EXCEPT
            !.ws = IF closeOld THEN @ ELSE "closed",
            !.wsRef = FALSE, !.closeOld = FALSE]))

\* disconnect(): the session's close() returned: self._session = None
StopSessClosed ==
    /\ stoppc = "sess_close"
    /\ Set(StopAfterSession([At("stop_sess_closed") EXCEPT !.session = FALSE]))

\* rest_client.close() returned
StopRestClosed ==
    /\ stoppc = "rest_close"
    /\ Set(StopCancel([At("stop_rest_closed") EXCEPT !.rest = FALSE]))

\* stop(): the cancelled task has finished; `await self._task` swallows its
\* CancelledError, and raises what on_disconnect raised in the finally block
StopJoin ==
    /\ stoppc = "join" /\ task # "live"
    /\ Set(IF task = "failed"
           THEN [At("stop_raised") EXCEPT !.stoppc = "idle"]
           ELSE StopReturn(At("stop_return")))

Next ==
    \/ StartCall
    \/ StopBegin
    \/ StopWsClosed
    \/ StopSessClosed
    \/ StopRestClosed
    \/ StopJoin
    \/ SupStart
    \/ \E ok \in BOOLEAN : ConnectOpen(ok)
    \/ \E o \in {"ack", "ack_bad", "text", "binary", "badjson", "timeout", "close"} :
          \E a \in Acks : Handshake(o, a)
    \/ OnConnectReturn
    \/ OnConnectRaise
    \/ SleepDone
    \/ \E f \in TextFrames : \E wr \in BOOLEAN : RecvText(f, wr)
    \/ \E k \in {"badjson", "binary"} : RecvSkip(k)
    \/ RecvEnd
    \/ \E r \in {"returned", "raised"} : OnMessageDone(r)
    \/ OnDisconnectReturn
    \/ OnDisconnectRaise
    \/ HbStart
    \/ \E wr \in BOOLEAN : HbTick(wr)
    \/ \E h \in Helpers : \E wr \in BOOLEAN : SendCall(h, wr)
    \/ RestQuery
    \/ SocketBreak

Spec == Init /\ [][Next]_vars

(***************************************************************************)
(* One established connection in detail: frames queue up in the socket in  *)
(* the order they arrive, and a write to the socket (_ws.send_json) is an  *)
(* await at which the writer may be suspended while other tasks run.       *)
(***************************************************************************)

\* frames the server sends on the established connection
MaxArrivals == 3

\* the frames the server sends on it: heartbeats, a frame for the message
\* callback, a frame of an unknown type
IOFrames == {f \in TextFrames : f.type \in {"HEARTBEAT", "CHAT_REQUEST", "BOGUS"}}

\* the external callers of the outbound helpers
Callers == {"c1", "c2"}

\* the connection is established: the handshake succeeded, on_connect
\* returned, the heartbeat task sleeps and the receive loop waits for a frame
InitIO ==
    /\ running = TRUE
    /\ connected = TRUE
    /\ reconnect_delay = DEFAULT_RECONNECT_DELAY
    /\ ws = "open"
    /\ wsRef = TRUE
    /\ closeOld = FALSE
    /\ session = TRUE
    /\ hb_task = TRUE
    /\ hbpc = "sleep"
    /\ session_id = "s1"
    /\ server_info = "Box"
    /\ task = "live"
    /\ pc = "recv"
    /\ cancelling = FALSE
    /\ stoppc = "idle"
    /\ rest = FALSE
    /\ ev = [op |-> "hb_start", frame |-> NoFrame, out |-> << >>, cb |-> "none",
             ret |-> "-", first |-> "-", slept |-> 0, conn |-> FALSE, fin |-> FALSE,
             preConn |-> TRUE, preRun |-> TRUE, preDisc |-> FALSE,
             preOpen |-> TRUE]
    /\ fails = 0
    /\ lost = FALSE
    /\ wantRun = TRUE
    /\ stopped = FALSE
    /\ stopReq = FALSE
    /\ sawDisconnect = FALSE
    /\ liveSup = 1
    /\ runFailed = FALSE
    /\ io = Io0
    /\ reg = Reg0
    /\ fx = Fx0

\* the server's frame reaches the socket's queue
IOArrive(f) ==
    /\ ws = "open" /\ Len(io.arrived) < MaxArrivals
    /\ Set([At("arrive") EXCEPT !.io.inbox = Append(@, f),
                                !.io.arrived = Append(@, f)])

\* `async for msg in self._ws`: the frame the iteration yields next
NextFrame(q) == Head(q)

\* a receive loop that would not wait for the dispatch of a frame
DispatchSpawned(s) == [s EXCEPT !.pc = "recv"]

\* `await self._handle_message(mc_msg)`: the loop goes on only when the
\* dispatch is complete
DispatchAwaited(s) == s

\* _send suspended inside `await self._ws.send_json(data)`
WriteSuspended(s, who) == [s EXCEPT !.io.writing = @ \cup {who}]

\* _receive_loop takes the next frame from the socket and dispatches it; the
\* write of a HEARTBEAT_ACK may suspend the loop (susp)
IORecv(susp) ==
    /\ task = "live" /\ pc = "recv" /\ ws = "open" /\ io.inbox # << >>
    /\ LET f  == NextFrame(io.inbox)
           s0 == [At("dispatch") EXCEPT
                    !.ev.frame = f,
                    !.io.inbox = Tail(@),
                    !.io.dispatched = Append(@, f)]
           s1 == HandleMessage(s0, MCMessage_from_dict(f), TRUE)
           s2 == IF susp /\ Len(s1.ev.out) = 1
                 THEN WriteSuspended([s1 EXCEPT !.pc = "ack_write"], "sup")
                 ELSE s1
       IN  Set(IF s2.pc = "recv" THEN s2
               ELSE DispatchAwaited([s2 EXCEPT !.io.open = @ + 1]))

\* the HEARTBEAT_ACK is written: _send, _send_heartbeat_ack and
\* _handle_message return
IOAckWritten ==
    /\ task = "live" /\ "sup" \in io.writing /\ io.open > 0
    /\ Set([At("ack_written") EXCEPT !.pc = "recv", !.io.open = @ - 1,
                                     !.io.writing = @ \ {"sup"}])

\* on_message returned or raised (caught and logged): _handle_message returns
IOMessageDone(r) ==
    /\ task = "live" /\ pc = "on_message" /\ io.open > 0
    /\ Set([At("on_message_done") EXCEPT !.pc = "recv", !.ev.ret = r,
                                         !.io.open = @ - 1])

\* the heartbeat task wakes up and sends a HEARTBEAT; the write may suspend it
IOHbTick(susp) ==
    /\ hbpc = "sleep"
    /\ LET s == IF connected THEN SendHeartbeat(At("hb_tick"), TRUE)
                ELSE At("hb_tick")
       IN  Set(IF susp /\ Len(s.ev.out) = 1
               THEN WriteSuspended([s EXCEPT !.hbpc = "write"], "hb")
               ELSE [s EXCEPT !.hbpc = IF connected /\ running THEN "sleep"
                                       ELSE "done"])

\* the HEARTBEAT is written: back to the top of _heartbeat_loop
IOHbWritten ==
    /\ hbpc = "write"
    /\ Set([At("hb_written") EXCEPT
            !.hbpc = IF connected /\ running THEN "sleep" ELSE "done",
            !.io.writing = @ \ {"hb"}])

\* an external caller calls an outbound helper; the write may suspend it
IOSendCall(c, h, susp) ==
    /\ c \notin io.writing
    /\ LET s == Send(At(h), HelperFrame(h), TRUE)
       IN  Set(IF susp /\ s.ev.ret = "True"
               THEN WriteSuspended([s EXCEPT !.ev.ret = "-"], c)
               ELSE s)

\* the caller's frame is written: _send and the helper return True
IOSendWritten(c) ==
    /\ c \in io.writing \cap Callers
    /\ Set([At("send_written") EXCEPT !.ev.ret = "True",
                                      !.io.writing = @ \ {c}])

NextIO ==
    \/ \E f \in IOFrames : IOArrive(f)
    \/ \E susp \in BOOLEAN : IORecv(susp)
    \/ IOAckWritten
    \/ \E r \in {"returned", "raised"} : IOMessageDone(r)
    \/ \E susp \in BOOLEAN : IOHbTick(susp)
    \/ IOHbWritten
    \/ \E c \in Callers : \E h \in Helpers : \E susp \in BOOLEAN :
          IOSendCall(c, h, susp)
    \/ \E c \in Callers : IOSendWritten(c)

SpecIO == InitIO /\ [][NextIO]_vars

(***************************************************************************)
(* ServerManager: the registry of ServerConnection objects. A connection   *)
(* is kept here by what the registry can see of it: its supervisor task,   *)
(* where the supervisor is, the running and the connected flag.            *)
(***************************************************************************)

\* the server ids configs carry
RegIds == {"a", "b"}

\* the configs add_server is called with: one id comes enabled and
\* disabled, the other enabled
Configs ==
    {[server_id |-> "a", enabled |-> TRUE], [server_id |-> "a", enabled |-> FALSE],
     [server_id |-> "b", enabled |-> TRUE]}

\* ServerConnection objects created in a run
MaxObjs == 2

\* set_*_handler calls in a run
MaxRegs == 2

\* the handlers a consumer registers
Handlers == {"A", "B"}

\* the place of a removed entry in the dict's table
Hole == [id |-> "-", obj |-> 0]

\* the positions of the entries of _servers
Entries(r) == {i \in DOMAIN r.servers : r.servers[i].obj # 0}

\* self._servers.get(server_id): the connection, or 0 for None
Lookup(r, server_id) ==
    LET I == {i \in Entries(r) : r.servers[i].id = server_id}
    IN  IF I = {} THEN 0 ELSE r.servers[CHOOSE i \in I : TRUE].obj

\* a connection that is created with its supervisor task
ServerConnectionStarted(config, on_message, on_connect, on_disconnect) ==
    [config |-> config,
     on_message |-> on_message, on_connect |-> on_connect,
     on_disconnect |-> on_disconnect,
     task |-> "live", sup |-> "init", running |-> FALSE, connected |-> FALSE]

\* ServerConnection.__init__: the handlers are stored in the connection
ServerConnection(config, on_message, on_connect, on_disconnect) ==
    [config |-> config,
     on_message |-> on_message, on_connect |-> on_connect,
     on_disconnect |-> on_disconnect,
     task |-> "none",      \* _task: none / live / done
     sup |-> "-",          \* the supervisor: init / loop / recv
     running |-> FALSE,    \* ws_client._running
     connected |-> FALSE]  \* ws_client._connected; the heartbeat task lives
                           \* exactly while the supervisor is in the receive loop

\* a stop() of the connection is suspended
Stopping(r, o) == (r.sa.st = "await" /\ r.sa.cur = o) \/ r.ss = o

\* an add_server that does not look for the id
add_serverAlways(r, config) ==
    [r EXCEPT !.objs = Append(@, ServerConnection(config, r.on_message,
                                    r.on_connect, r.on_disconnect)),
              !.servers = Append(@, [id |-> config.server_id,
                                     obj |-> Len(r.objs) + 1]),
              !.ev.ret = "True"]

\* add_server
add_server(r, config) ==
    IF Lookup(r, config.server_id) # 0
    THEN [r EXCEPT !.ev.ret = "False"]
    ELSE [r EXCEPT !.objs = Append(@, ServerConnection(config, r.on_message,
                                        r.on_connect, r.on_disconnect)),
                   !.servers = Append(@, [id |-> config.server_id,
                                          obj |-> Len(r.objs) + 1]),
                   !.ev.ret = "True"]

\* a remove_server that stops the connection it removes
remove_serverStopping(r, server_id) ==
    LET o == Lookup(r, server_id)
    IN  IF o = 0
        THEN [r EXCEPT !.ev.ret = "False"]
        ELSE [r EXCEPT !.servers = [i \in DOMAIN @ |->
                                      IF @[i].obj = o THEN Hole ELSE @[i]],
                       !.objs[o].running = FALSE,
                       !.objs[o].connected = FALSE,
                       !.objs[o].task = IF @ = "live" THEN "done" ELSE @,
                       !.objs[o].sup = "-",
                       !.ev.ret = "True"]

\* remove_server
remove_server(r, server_id) ==
    LET o == Lookup(r, server_id)
    IN  IF o = 0
        THEN [r EXCEPT !.ev.ret = "False"]
        ELSE [r EXCEPT !.servers = [i \in DOMAIN @ |->
                                      IF @[i].obj = o THEN Hole ELSE @[i]],
                       !.ev.ret = "True"]

\* ServerConnection.start: create the supervisor task unless one is live
ConnectionStart(r, o) ==
    IF r.objs[o].task # "live"
    THEN [r EXCEPT !.objs[o].task = "live", !.objs[o].sup = "init",
                   !.ev.acted = @ \cup {o}]
    ELSE [r EXCEPT !.ev.acted = @ \cup {o}]

\* ServerConnection.stop up to its first await: ws_client.disconnect()
\* clears the flags
ConnectionStopBegin(r, o) ==
    [r EXCEPT !.objs[o].running = FALSE, !.objs[o].connected = FALSE,
              !.ev.acted = @ \cup {o}]

\* ServerConnection.stop from its last await: the task is cancelled and over
ConnectionStopEnd(r, o) ==
    [r EXCEPT !.objs[o].task = IF @ = "live" THEN "done" ELSE @,
              !.objs[o].sup = "-"]

\* start_all: `for server in self._servers.values()`, from the entry after
\* pos; start() never suspends, so the loop runs to its end
RECURSIVE StartAllFrom(_, _)
StartAllFrom(r, pos) ==
    LET later == {i \in Entries(r) : i > pos}
    IN  IF later = {} THEN r
        ELSE LET i == CHOOSE j \in later : \A k \in later : j <= k
                 o == r.servers[i].obj
             IN  StartAllFrom(IF r.objs[o].config.enabled
                              THEN ConnectionStart(r, o) ELSE r, i)

\* stop_all: `for server in self._servers.values()`, from the entry after
\* pos. The dict iterator raises RuntimeError when the size of the dict is
\* not what it was when the iteration began; a stop() of a connection whose
\* task is live suspends stop_all, any other stop() returns at once
RECURSIVE StopAllFrom(_, _)
StopAllFrom(r, pos) ==
    IF Cardinality(Entries(r)) # r.sa.n
    THEN [r EXCEPT !.sa = Reg0.sa, !.ev.acted = r.sa.done, !.ev.todo = r.sa.todo,
                   !.ev.op = "stop_all_raised", !.ev.ret = "RuntimeError"]
    ELSE LET later == {i \in Entries(r) : i > pos}
         IN  IF later = {}
             THEN [r EXCEPT !.sa = Reg0.sa, !.ev.acted = r.sa.done,
                            !.ev.todo = r.sa.todo,
                            !.ev.op = "stop_all_return", !.ev.ret = "None"]
             ELSE LET i == CHOOSE j \in later : \A k \in later : j <= k
                      o == r.servers[i].obj
                      r1 == [ConnectionStopBegin(r, o) EXCEPT !.sa.done = @ \cup {o}]
                  IN  IF r.objs[o].task = "live"
                      THEN [r1 EXCEPT !.sa.st = "await", !.sa.pos = i, !.sa.cur = o]
                      ELSE StopAllFrom(ConnectionStopEnd(r1, o), i)

\* set_message_handler, set_connect_handler, set_disconnect_handler
SetHandler(r, kind, handler) ==
    CASE kind = "message" -> [r EXCEPT !.on_message = handler]
      [] kind = "connect" -> [r EXCEPT !.on_connect = handler]
      [] OTHER -> [r EXCEPT !.on_disconnect = handler]

\* the handler slot of the registry for a kind of event
Slot(r, kind) ==
    CASE kind = "message" -> r.on_message
      [] kind = "connect" -> r.on_connect
      [] OTHER -> r.on_disconnect

\* ServerConnection._handle_ws_message, _handle_connect, _handle_disconnect:
\* the event goes to the handler stored in the connection, if any
Deliver(r, o, kind) ==
    [r EXCEPT !.ev.kind = kind, !.ev.id = r.objs[o].config.server_id,
              !.ev.to = CASE kind = "message" -> r.objs[o].on_message
                          [] kind = "connect" -> r.objs[o].on_connect
                          [] OTHER -> r.objs[o].on_disconnect]

\* a sender that does not look at the connected flag
SendViaAlways(r, server_id, res) ==
    LET o == Lookup(r, server_id)
    IN  IF o # 0
        THEN [r EXCEPT !.ev.wrote = o, !.ev.res = res, !.ev.ret = res]
        ELSE [r EXCEPT !.ev.ret = "False"]

\* ServerManager.send_chat_response, send_incoming_message: res is what the
\* helper of the connection's WebSocketClient returns
SendVia(r, server_id, res) ==
    LET o == Lookup(r, server_id)
    IN  IF o # 0 /\ r.objs[o].connected
        THEN [r EXCEPT !.ev.wrote = o, !.ev.res = res, !.ev.ret = res]
        ELSE [r EXCEPT !.ev.ret = "False"]

\* the state a step of the registry starts from
RegAt(op, server_id) == [reg EXCEPT !.ev = [RegEv0(op) EXCEPT !.id = server_id]]

RegSetHandler(kind, handler) ==
    /\ reg.regs < MaxRegs
    /\ reg' = [SetHandler(RegAt("set_handler", "-"), kind, handler) EXCEPT
                  !.regs = @ + 1, !.ev.kind = kind, !.ev.to = handler]
    /\ UNCHANGED cvars

RegAdd(server_id, enabled) ==
    /\ Lookup(reg, server_id) = 0 => Len(reg.objs) < MaxObjs
    /\ reg' = add_server(RegAt("add_server", server_id),
                         [server_id |-> server_id, enabled |-> enabled])
    /\ UNCHANGED cvars

RegRemove(server_id) ==
    /\ reg' = remove_server(RegAt("remove_server", server_id), server_id)
    /\ UNCHANGED cvars

RegStartAll ==
    /\ reg' = StartAllFrom(RegAt("start_all", "-"), 0)
    /\ UNCHANGED cvars

\* start_server
RegStartServer(server_id) ==
    /\ LET o == Lookup(reg, server_id)
           r == RegAt("start_server", server_id)
       IN  reg' = IF o # 0
                  THEN [ConnectionStart(r, o) EXCEPT !.ev.ret = "True"]
                  ELSE [r EXCEPT !.ev.ret = "False"]
    /\ UNCHANGED cvars

\* stop_all is called; one stop call is in flight at a time
RegStopAll ==
    /\ reg.sa.st = "idle" /\ reg.ss = 0
    /\ reg' = StopAllFrom([RegAt("stop_all", "-") EXCEPT
                  !.sa = [st |-> "run", pos |-> 0, cur |-> 0,
                          n |-> Cardinality(Entries(reg)),
                          todo |-> {reg.servers[i].obj : i \in Entries(reg)},
                          done |-> {}]], 0)
    /\ UNCHANGED cvars

\* the stop() that stop_all awaits returns; the loop asks for the next entry
RegStopAllResume ==
    /\ reg.sa.st = "await"
    /\ reg' = StopAllFrom(ConnectionStopEnd(
                  [RegAt("stop_all", "-") EXCEPT !.sa.st = "run", !.sa.cur = 0],
                  reg.sa.cur), reg.sa.pos)
    /\ UNCHANGED cvars

\* stop_server is called
RegStopServer(server_id) ==
    /\ reg.ss = 0 /\ reg.sa.st = "idle"
    /\ LET o == Lookup(reg, server_id)
           r == RegAt("stop_server", server_id)
       IN  reg' = IF o = 0 THEN [r EXCEPT !.ev.ret = "False"]
                  ELSE IF reg.objs[o].task = "live"
                       THEN [ConnectionStopBegin(r, o) EXCEPT !.ss = o]
                       ELSE [ConnectionStopEnd(ConnectionStopBegin(r, o), o)
                                EXCEPT !.ev.ret = "True"]
    /\ UNCHANGED cvars

\* the stop() that stop_server awaits returns
RegStopServerReturn ==
    /\ reg.ss # 0
    /\ reg' = [ConnectionStopEnd(RegAt("stop_server",
                                       reg.objs[reg.ss].config.server_id), reg.ss)
                  EXCEPT !.ss = 0, !.ev.ret = "True", !.ev.acted = {reg.ss}]
    /\ UNCHANGED cvars

RegSend(h, server_id, res) ==
    /\ h \in {"send_chat_response", "send_incoming_message"}
    /\ reg' = SendVia(RegAt(h, server_id), server_id, res)
    /\ UNCHANGED cvars

\* WebSocketClient.start begins: _running = True. A task that stop()
\* cancelled before its first step never takes it
RegSupBegin(o) ==
    /\ o \in DOMAIN reg.objs
    /\ reg.objs[o].task = "live" /\ reg.objs[o].sup = "init"
    /\ ~Stopping(reg, o)
    /\ reg' = [RegAt("sup_begin", "-") EXCEPT !.objs[o].running = TRUE,
                                              !.objs[o].sup = "loop"]
    /\ UNCHANGED cvars

\* the while loop of start() finds _running false: the task is over
RegSupExit(o) ==
    /\ o \in DOMAIN reg.objs
    /\ reg.objs[o].task = "live" /\ reg.objs[o].sup = "loop"
    /\ ~reg.objs[o].running
    /\ reg' = [RegAt("sup_exit", "-") EXCEPT !.objs[o].task = "done",
                                             !.objs[o].sup = "-"]
    /\ UNCHANGED cvars

\* connect() succeeds: the connect event
RegSupConnected(o) ==
    /\ o \in DOMAIN reg.objs
    /\ reg.objs[o].task = "live" /\ reg.objs[o].sup = "loop"
    /\ reg.objs[o].running /\ ~Stopping(reg, o)
    /\ reg' = Deliver([RegAt("event", "-") EXCEPT !.objs[o].connected = TRUE,
                                                 !.objs[o].sup = "recv"],
                      o, "connect")
    /\ UNCHANGED cvars

\* a frame for the message callback arrives: the message event
RegMessage(o) ==
    /\ o \in DOMAIN reg.objs
    /\ reg.objs[o].task = "live" /\ reg.objs[o].sup = "recv"
    /\ ~Stopping(reg, o)
    /\ reg' = Deliver(RegAt("event", "-"), o, "message")
    /\ UNCHANGED cvars

\* the receive loop ends: the disconnect event if _running is set, else the
\* task is over
RegSupLost(o) ==
    /\ o \in DOMAIN reg.objs
    /\ reg.objs[o].task = "live" /\ reg.objs[o].sup = "recv"
    /\ LET r == [RegAt("event", "-") EXCEPT !.objs[o].connected = FALSE]
       IN  reg' = IF reg.objs[o].running
                  THEN Deliver([r EXCEPT !.objs[o].sup = "loop"], o, "disconnect")
                  ELSE [r EXCEPT !.objs[o].task = "done", !.objs[o].sup = "-",
                                 !.ev.op = "sup_exit"]
    /\ UNCHANGED cvars

NextReg ==
    \/ \E c \in Configs : RegAdd(c.server_id, c.enabled)
    \/ \E i \in RegIds : RegRemove(i)
    \/ RegStartAll
    \/ \E i \in RegIds : RegStartServer(i)
    \/ RegStopAll
    \/ RegStopAllResume
    \/ \E i \in RegIds : RegStopServer(i)
    \/ RegStopServerReturn
    \/ \E o \in 1..MaxObjs : RegSupBegin(o)
    \/ \E o \in 1..MaxObjs : RegSupExit(o)
    \/ \E o \in 1..MaxObjs : RegSupConnected(o)
    \/ \E o \in 1..MaxObjs : RegSupLost(o)

SpecReg == Init /\ [][NextReg]_vars

\* the ids in the order the returned map is kept by
IdAt == <<"a", "b">>

\* the connection per id of _servers
AsMap(r) == [k \in DOMAIN IdAt |-> Lookup(r, IdAt[k])]

\* a get_all_servers that returns the registry's own dict
get_all_serversLive(r) ==
    [r EXCEPT !.snap = [held |-> TRUE, live |-> TRUE, map |-> <<0, 0>>]]

\* get_all_servers: self._servers.copy()
get_all_servers(r) ==
    [r EXCEPT !.snap = [held |-> TRUE, live |-> FALSE, map |-> AsMap(r)]]

\* what the map the caller holds contains
SnapMap(r) == IF r.snap.live THEN AsMap(r) ELSE r.snap.map

\* get_connected_servers: the entries whose connection is connected
get_connected_servers(r) ==
    {r.servers[i].obj : i \in {j \in Entries(r) : r.objs[r.servers[j].obj].connected}}

RegGetAll ==
    /\ reg' = get_all_servers(RegAt("get_all_servers", "-"))
    /\ UNCHANGED cvars

\* the caller deletes a key of the map it was returned
RegSnapDel(k) ==
    /\ reg.snap.held /\ SnapMap(reg)[k] # 0
    /\ LET r == RegAt("snap_del", IdAt[k])
       IN  reg' = IF reg.snap.live
                  THEN remove_server(r, IdAt[k])
                  ELSE [r EXCEPT !.snap.map[k] = 0]
    /\ UNCHANGED cvars

\* the caller stores a connection under a key of the map it was returned
RegSnapPut(k, o) ==
    /\ reg.snap.held /\ o \in DOMAIN reg.objs /\ SnapMap(reg)[k] # o
    /\ LET r == RegAt("snap_put", IdAt[k])
       IN  reg' = IF reg.snap.live
                  THEN [r EXCEPT !.servers =
                           IF Lookup(reg, IdAt[k]) = 0
                           THEN Append(@, [id |-> IdAt[k], obj |-> o])
                           ELSE [i \in DOMAIN @ |->
                                   IF @[i].obj # 0 /\ @[i].id = IdAt[k]
                                   THEN [id |-> IdAt[k], obj |-> o] ELSE @[i]]]
                  ELSE [r EXCEPT !.snap.map[k] = o]
    /\ UNCHANGED cvars

RegGetConnected ==
    /\ reg' = [RegAt("get_connected_servers", "-") EXCEPT
                  !.ev.acted = get_connected_servers(reg)]
    /\ UNCHANGED cvars

\* the lookups are called while connections are added, removed, started and
\* connect
NextLookup ==
    \/ \E i \in RegIds : RegAdd(i, TRUE)
    \/ \E i \in RegIds : RegRemove(i)
    \/ \E i \in RegIds : RegStartServer(i)
    \/ RegGetAll
    \/ \E k \in DOMAIN IdAt : RegSnapDel(k)
    \/ \E k \in DOMAIN IdAt : \E o \in 1..MaxObjs : RegSnapPut(k, o)
    \/ RegGetConnected
    \/ \E o \in 1..MaxObjs : RegSupBegin(o)
    \/ \E o \in 1..MaxObjs : RegSupConnected(o)
    \/ \E o \in 1..MaxObjs : RegSupLost(o)

SpecLookup == Init /\ [][NextLookup]_vars

\* the senders are called while connections are added, removed, started
\* and stopped one by one
NextSend ==
    \/ \E i \in RegIds : RegAdd(i, TRUE)
    \/ \E i \in RegIds : RegRemove(i)
    \/ \E i \in RegIds : RegStartServer(i)
    \/ \E i \in RegIds : RegStopServer(i)
    \/ RegStopServerReturn
    \/ \E h \in {"send_chat_response", "send_incoming_message"} :
          \E i \in RegIds : \E res \in {"True", "False"} : RegSend(h, i, res)
    \/ \E o \in 1..MaxObjs : RegSupBegin(o)
    \/ \E o \in 1..MaxObjs : RegSupExit(o)
    \/ \E o \in 1..MaxObjs : RegSupConnected(o)
    \/ \E o \in 1..MaxObjs : RegSupLost(o)

SpecSend == Init /\ [][NextSend]_vars

\* handlers are registered while connections are added, started and report
\* their events
NextEvents ==
    \/ \E k \in {"message", "connect", "disconnect"} : \E h \in Handlers :
          RegSetHandler(k, h)
    \/ \E i \in RegIds : RegAdd(i, TRUE)
    \/ \E i \in RegIds : RegStartServer(i)
    \/ \E o \in 1..MaxObjs : RegSupBegin(o)
    \/ \E o \in 1..MaxObjs : RegSupConnected(o)
    \/ \E o \in 1..MaxObjs : RegMessage(o)
    \/ \E o \in 1..MaxObjs : RegSupLost(o)

SpecEvents == Init /\ [][NextEvents]_vars

(***************************************************************************)
(* The codec (core/models.py). A JSON object is a record of its keys; a    *)
(* key is << >> when the object does not have it and <<v>> when it has it  *)
(* with value v. A value that should be an object is a record whose field  *)
(* obj says whether it is one (null, a string or a number are not).        *)
(***************************************************************************)

TargetType == {"PLAYER", "BROADCAST", "SERVER"}

SourceType == {"PLAYER", "SERVER", "SYSTEM"}

\* dict.get(key, default)
Get(key, default) == IF key = << >> THEN default ELSE key[1]

\* safe_enum(enum_class, value, default)
safe_enum_of(enum_class, value, default) ==
    IF value \in enum_class THEN value ELSE default

\* the values of a key that should hold a nested object with one string
\* field: null, {} and {"f": "v"}
Nested(v) == {[obj |-> FALSE, f |-> << >>], [obj |-> TRUE, f |-> << >>],
              [obj |-> TRUE, f |-> <<v>>]}

\* the "target" values of inbound objects
TargetDicts ==
    {[obj |-> FALSE, type |-> << >>, playerUuid |-> << >>, playerName |-> << >>]}
    \cup [obj : {TRUE}, type : {<< >>, <<"PLAYER">>, <<"SERVER">>, <<"BOGUS">>},
          playerUuid : {<< >>, <<"u1">>}, playerName : {<< >>, <<"n1">>}]

\* the "source" values of inbound objects ("server" stands for the nested
\* object with name and platform, "player" for the one with uuid, name and
\* displayName: every field of them is read with .get(key, ""))
SourceDicts ==
    {[obj |-> FALSE, type |-> << >>, server |-> << >>, player |-> << >>]}
    \cup [obj : {TRUE}, type : {<< >>, <<"SERVER">>, <<"BOGUS">>},
          server : {<< >>} \cup {<<n>> : n \in Nested("S")},
          player : {<< >>} \cup {<<n>> : n \in Nested("u1")}]

\* the JSON objects decoded: every MessageType, a string that is none, the
\* empty string and no type at all
Dicts ==
    [type : {<< >>, <<"BOGUS">>, <<"">>} \cup {<<v>> : v \in MessageType},
     id : {<< >>, <<"m1">>},
     source : {<< >>} \cup {<<s>> : s \in SourceDicts},
     target : {<< >>} \cup {<<g>> : g \in TargetDicts},
     payload : {<< >>, <<{"k"}>>},
     timestamp : {<< >>, <<7>>},
     replyTo : {<< >>, <<"r1">>}]

\* MCMessageTarget values
Targets == [type : TargetType, player_uuid : {"", "u1"}, player_name : {"", "n1"}]

\* a populated MCMessageSource
Source1 == [type |-> "PLAYER", server_name |-> "S", player_uuid |-> "u1"]

\* the MCMessage values encoded: source, target are << >> for None
Messages ==
    [type : MessageType, id : {"", "m1"},
     source : {<< >>, <<Source1>>},
     target : {<< >>} \cup {<<g>> : g \in Targets},
     payload : {{}, {"k"}}, timestamp : {0, 7}, reply_to : {"", "r1"}]

\* what a decoder gives: a value, or an exception
Ok(v) == [raised |-> FALSE, v |-> <<v>>]

\* data.get on a value that is no object: AttributeError
Raised == [raised |-> TRUE, v |-> << >>]

\* MCMessageSource.from_dict
MCMessageSource_from_dict(data) ==
    IF ~data.obj THEN Raised
    ELSE LET server == Get(data.server, [obj |-> TRUE, f |-> << >>])
             player == Get(data.player, [obj |-> TRUE, f |-> << >>])
         IN  IF ~server.obj \/ ~player.obj THEN Raised
             ELSE Ok([type |-> safe_enum_of(SourceType, Get(data.type, "PLAYER"), "PLAYER"),
                      server_name |-> Get(server.f, ""),
                      player_uuid |-> Get(player.f, "")])

\* MCMessageTarget.from_dict
MCMessageTarget_from_dict(data) ==
    IF ~data.obj THEN Raised
    ELSE Ok([type |-> safe_enum_of(TargetType, Get(data.type, "BROADCAST"), "BROADCAST"),
             player_uuid |-> Get(data.playerUuid, ""),
             player_name |-> Get(data.playerName, "")])

\* an encoder that writes every key whatever its value
EmitAlways(cond, v) == <<v>>

\* `if cond: result[key] = v`
Emit(cond, v) == IF cond THEN <<v>> ELSE << >>

\* a MCMessageTarget.to_dict that leaves the player name out
MCMessageTarget_to_dictNoName(g) ==
    [obj |-> TRUE, type |-> <<g.type>>,
     playerUuid |-> Emit(g.player_uuid # "", g.player_uuid),
     playerName |-> << >>]

\* MCMessageTarget.to_dict
MCMessageTarget_to_dict(g) ==
    [obj |-> TRUE, type |-> <<g.type>>,
     playerUuid |-> Emit(g.player_uuid # "", g.player_uuid),
     playerName |-> Emit(g.player_name # "", g.player_name)]

\* MCMessage.from_dict, every field
MCMessage_decode(data) ==
    LET source == IF data.source = << >> THEN Ok(<< >>)
                  ELSE LET r == MCMessageSource_from_dict(data.source[1])
                       IN  IF r.raised THEN Raised ELSE Ok(r.v)
        target == IF data.target = << >> THEN Ok(<< >>)
                  ELSE LET r == MCMessageTarget_from_dict(data.target[1])
                       IN  IF r.raised THEN Raised ELSE Ok(r.v)
    IN  IF source.raised \/ target.raised THEN Raised
        ELSE Ok([type |-> safe_enum_of(MessageType, Get(data.type, "ERROR"), "ERROR"),
                 id |-> Get(data.id, ""),
                 source |-> source.v[1],
                 target |-> target.v[1],
                 payload |-> Get(data.payload, {}),
                 timestamp |-> Get(data.timestamp, 0),
                 reply_to |-> Get(data.replyTo, "")])

\* MCMessage.to_dict
MCMessage_to_dict(m) ==
    [type |-> <<m.type>>, id |-> <<m.id>>, timestamp |-> <<m.timestamp>>,
     source |-> << >>,
     target |-> IF m.target # << >>
                THEN <<MCMessageTarget_to_dict(m.target[1])>> ELSE << >>,
     payload |-> Emit(m.payload # {}, m.payload),
     replyTo |-> Emit(m.reply_to # "", m.reply_to)]

\* a JSON object is about to be decoded, or a message to be encoded
InitCodec ==
    /\ InitBase
    /\ \/ \E d \in Dicts : fx = [op |-> "dict", data |-> d]
       \/ \E m \in Messages : fx = [op |-> "message", m |-> m]

\* MCMessage.from_dict(data)
Decode ==
    /\ fx.op = "dict"
    /\ fx' = [op |-> "decoded", data |-> fx.data, got |-> MCMessage_decode(fx.data)]
    /\ UNCHANGED <<cvarsNoFx, reg>>

\* m.to_dict()
Encode ==
    /\ fx.op = "message"
    /\ fx' = [op |-> "encoded", m |-> fx.m, data |-> MCMessage_to_dict(fx.m)]
    /\ UNCHANGED <<cvarsNoFx, reg>>

\* MCMessage.from_dict(m.to_dict())
DecodeEncoded ==
    /\ fx.op = "encoded"
    /\ fx' = [op |-> "roundtrip", m |-> fx.m, data |-> fx.data,
              got |-> MCMessage_decode(fx.data)]
    /\ UNCHANGED <<cvarsNoFx, reg>>

NextCodec == Decode \/ Encode \/ DecodeEncoded

SpecCodec == InitCodec /\ [][NextCodec]_vars

(***************************************************************************)
(* RestClient (core/rest_client.py): one call of an operation against one  *)
(* outcome of the HTTP exchange                                            *)
(***************************************************************************)

MAX_LOG_LINES == 1000

\* the operations that go through _request
RequestOps == {"get_server_info", "get_server_status", "get_players",
               "get_player_by_uuid", "get_player_by_name", "execute_command",
               "get_logs"}

RestOps == RequestOps \cup {"health_check"}

\* what session.request / resp.json() can do: raise (connection refused is
\* ClientConnectorError; a timeout is TimeoutError where asyncio.TimeoutError
\* is the builtin, and an Exception with an empty str() where it is not; any
\* other failure is an Exception with its message, empty or not), or give the
\* JSON body: not an object, or an object with code, message and data each
\* present or not (data: null, {} or an object of the expected shape)
Exchanges ==
    [k : {"raise"}, cls : {"ClientConnectorError", "TimeoutError"}, msg : {"-"},
     obj : {FALSE}, code : {<< >>}, message : {<< >>}, data : {<< >>}]
    \cup [k : {"raise"}, cls : {"Exception"}, msg : {"", "boom"},
          obj : {FALSE}, code : {<< >>}, message : {<< >>}, data : {<< >>}]
    \cup [k : {"body"}, cls : {"-"}, msg : {"-"},
          obj : {FALSE}, code : {<< >>}, message : {<< >>}, data : {<< >>}]
    \cup [k : {"body"}, cls : {"-"}, msg : {"-"},
          obj : {TRUE}, code : {<< >>, <<0>>, <<4001>>},
          message : {<< >>, <<"">>, <<"not found">>},
          data : {<< >>, <<"null">>, <<"empty">>, <<"good">>}]

\* ApiResponse.from_dict
ApiResponse_from_dict(x) ==
    [code |-> Get(x.code, 0), message |-> Get(x.message, ""),
     data |-> Get(x.data, "null")]

\* _request: the ApiResponse for an outcome of the exchange ("connect
\* failed" and "request timeout" stand for the two fixed messages)
Request(x) ==
    IF x.k = "raise"
    THEN CASE x.cls = "ClientConnectorError" ->
                [code |-> 3002, message |-> "connect failed", data |-> "null"]
           [] x.cls = "TimeoutError" ->
                [code |-> 3002, message |-> "request timeout", data |-> "null"]
           [] OTHER -> [code |-> 3001, message |-> x.msg, data |-> "null"]
    ELSE IF ~x.obj
         THEN [code |-> 3001, message |-> "object has no attribute 'get'",
               data |-> "null"]
         ELSE ApiResponse_from_dict(x)

\* `resp.success and resp.data`
Usable(resp) == resp.code = 0 /\ resp.data \notin {"null", "empty"}

\* what an operation returns: the value ("parsed" for the value built from
\* data), the total of get_players, and the string that comes with it
\* ("-" where the operation returns none)
Operation(fn, x) ==
    LET resp == Request(x)
    IN  CASE fn = "health_check" ->
               [raised |-> FALSE,
                value |-> IF x.k = "body" /\ x.obj /\ x.code = <<0>>
                          THEN "True" ELSE "False",
                total |-> "-", err |-> "-"]
          [] fn = "get_players" ->
               IF Usable(resp)
               THEN [raised |-> FALSE, value |-> "parsed", total |-> "n", err |-> ""]
               ELSE [raised |-> FALSE, value |-> "[]", total |-> "0",
                     err |-> resp.message]
          [] fn = "get_logs" ->
               IF Usable(resp)
               THEN [raised |-> FALSE, value |-> "parsed", total |-> "-", err |-> ""]
               ELSE [raised |-> FALSE, value |-> "[]", total |-> "-",
                     err |-> resp.message]
          [] fn = "execute_command" ->
               IF Usable(resp)
               THEN [raised |-> FALSE, value |-> "parsed", total |-> "-",
                     err |-> "output"]
               ELSE [raised |-> FALSE, value |-> "False", total |-> "-",
                     err |-> resp.message]
          [] OTHER ->
               IF Usable(resp)
               THEN [raised |-> FALSE, value |-> "parsed", total |-> "-", err |-> ""]
               ELSE [raised |-> FALSE, value |-> "None", total |-> "-",
                     err |-> resp.message]

\* the arguments of get_logs: << >> is None
LogArgs ==
    [lines : {-1, 0, 1, 100, 999, 1000, 1001, 5000},
     level : {<< >>, <<"">>, <<"INFO">>}, keyword : {<< >>, <<"k">>},
     start_time : {<< >>, <<0>>, <<5>>}, end_time : {<< >>, <<9>>}]

\* the arguments of the other operations do not matter here
NoArgs ==
    [lines |-> 100, level |-> << >>, keyword |-> << >>, start_time |-> << >>,
     end_time |-> << >>]

\* a clamp that lets every value through
ClampNone(lines) == lines

\* min(lines, MAX_LOG_LINES)
Clamp(lines) == IF lines < MAX_LOG_LINES THEN lines ELSE MAX_LOG_LINES

\* `if value: params[key] = value` for a string argument
GivenStr(arg) == IF arg # << >> /\ arg[1] # "" THEN arg ELSE << >>

\* `if value: params[key] = value` for an integer argument
GivenInt(arg) == IF arg # << >> /\ arg[1] # 0 THEN arg ELSE << >>

\* the params get_logs sends
LogParams(args) ==
    [lines |-> <<Clamp(args.lines)>>, level |-> GivenStr(args.level),
     keyword |-> GivenStr(args.keyword), startTime |-> GivenInt(args.start_time),
     endTime |-> GivenInt(args.end_time)]

\* no params
NoParams ==
    [lines |-> << >>, level |-> << >>, keyword |-> << >>, startTime |-> << >>,
     endTime |-> << >>]

\* an operation is about to be called against an outcome of the exchange
InitRest ==
    /\ InitBase
    /\ \E fn \in RestOps : \E x \in Exchanges :
         \E args \in (IF fn = "get_logs" THEN LogArgs ELSE {NoArgs}) :
            fx = [op |-> "rest_call", fn |-> fn, x |-> x, args |-> args,
                  params |-> NoParams, res |-> Operation("health_check", x)]

\* the call is made and returns
RestCall ==
    /\ fx.op = "rest_call"
    /\ fx' = [fx EXCEPT !.op = "rest_done",
                        !.params = IF fx.fn = "get_logs"
                                   THEN LogParams(fx.args) ELSE NoParams,
                        !.res = Operation(fx.fn, fx.x)]
    /\ UNCHANGED <<cvarsNoFx, reg>>

SpecRest == InitRest /\ [][RestCall]_vars

(***************************************************************************)
(* The reconnect delay of a WebSocketClient built with a maximum of the    *)
(* caller's choice: the constructor stores the argument as it comes        *)
(***************************************************************************)

\* the largest max_reconnect_delay a client is built with
MaxCap == 20

\* the maxima the constructor is called with; it takes any integer
Maxima == 0..MaxCap

\* start(): the delay after a backoff sleep
Backoff(d, m) == Min(d * 2, m)

\* WebSocketClient.__init__: the delay starts at DEFAULT_RECONNECT_DELAY
InitDelay ==
    /\ InitBase
    /\ \E m \in Maxima :
          fx = [op |-> "init", max |-> m, d |-> DEFAULT_RECONNECT_DELAY,
                fails |-> 0, slept |-> 0]

\* connect() returned False: sleep for the delay, then double it up to the
\* maximum
DelayFailed ==
    /\ fx' = [fx EXCEPT !.op = "failed", !.slept = fx.d,
                        !.d = Backoff(fx.d, fx.max),
                        !.fails = Min(@ + 1, FailCap)]
    /\ UNCHANGED <<cvarsNoFx, reg>>

\* connect() received a CONNECTION_ACK: the delay is reset
DelayConnected ==
    /\ fx' = [fx EXCEPT !.op = "connected", !.slept = 0,
                        !.d = DEFAULT_RECONNECT_DELAY, !.fails = 0]
    /\ UNCHANGED <<cvarsNoFx, reg>>

NextDelay == DelayFailed \/ DelayConnected

SpecDelay == InitDelay /\ [][NextDelay]_vars

(***************************************************************************)
(* BindingService (services/binding.py): the binding map and the index of  *)
(* binding keys by lower-cased player name. An entry of either map is      *)
(* << >> when the key is absent and <<v>> when it is there with value v.    *)
(***************************************************************************)

\* the platforms and user ids of the callers; a ":" inside one of them makes
\* two users share a key
Platforms == {"qq", "qq:7"}

UserIds == {"7:1", "1"}

\* the player names users bind
PlayerNames == {"Steve", "steve", "Alex"}

\* str.lower on those names
lower(name) ==
    CASE name = "Steve" -> "steve"
      [] name = "Alex" -> "alex"
      [] OTHER -> name

\* _make_key: f"{platform}:{user_id}"
make_key(platform, user_id) == platform \o ":" \o user_id

BindingKeys == {make_key(p, u) : p \in Platforms, u \in UserIds}

LowerNames == {lower(n) : n \in PlayerNames}

\* BindingStorage(): both maps empty; with it the last call and its result
BindingStorage ==
    [op |-> "init", key |-> "-", ret |-> "-",
     bindings |-> [k \in BindingKeys |-> << >>],
     mc_name_index |-> [n \in LowerNames |-> << >>]]

\* bind
bind(s, platform, user_id, mc_player_name) ==
    LET key == make_key(platform, user_id)
        mc_name_lower == lower(mc_player_name)
        s0 == [s EXCEPT !.op = "bind", !.key = key]
    IN  IF s.bindings[key] # << >>
        THEN [s0 EXCEPT !.ret = "False"]
        ELSE [s0 EXCEPT
                !.bindings[key] = <<[platform |-> platform, user_id |-> user_id,
                                     mc_player_name |-> mc_player_name]>>,
                !.mc_name_index[mc_name_lower] =
                    <<Append(IF @ = << >> THEN << >> ELSE @[1], key)>>,
                !.ret = "True"]

\* an unbind that leaves the emptied list in the index
unbindKeepsList(s, platform, user_id) ==
    LET key == make_key(platform, user_id)
        s0 == [s EXCEPT !.op = "unbind", !.key = key]
    IN  IF s.bindings[key] = << >>
        THEN [s0 EXCEPT !.ret = "False"]
        ELSE LET mc_name_lower == lower(s.bindings[key][1].mc_player_name)
                 Other(k) == k # key
             IN  [s0 EXCEPT
                    !.mc_name_index[mc_name_lower] =
                        IF @ = << >> THEN @ ELSE <<SelectSeq(@[1], Other)>>,
                    !.bindings[key] = << >>,
                    !.ret = "True"]

\* unbind
unbind(s, platform, user_id) ==
    LET key == make_key(platform, user_id)
        s0 == [s EXCEPT !.op = "unbind", !.key = key]
    IN  IF s.bindings[key] = << >>
        THEN [s0 EXCEPT !.ret = "False"]
        ELSE LET mc_name_lower == lower(s.bindings[key][1].mc_player_name)
                 Other(k) == k # key
                 kept == IF s.mc_name_index[mc_name_lower] = << >> THEN << >>
                         ELSE SelectSeq(s.mc_name_index[mc_name_lower][1], Other)
             IN  [s0 EXCEPT
                    !.mc_name_index[mc_name_lower] =
                        IF kept = << >> THEN << >> ELSE <<kept>>,
                    !.bindings[key] = << >>,
                    !.ret = "True"]

\* BindingService(data_dir) with no bindings file
InitBinding == InitBase /\ fx = BindingStorage

Bind(platform, user_id, mc_player_name) ==
    /\ fx' = bind(fx, platform, user_id, mc_player_name)
    /\ UNCHANGED <<cvarsNoFx, reg>>

Unbind(platform, user_id) ==
    /\ fx' = unbind(fx, platform, user_id)
    /\ UNCHANGED <<cvarsNoFx, reg>>

NextBinding ==
    \/ \E p \in Platforms : \E u \in UserIds : \E n \in PlayerNames : Bind(p, u, n)
    \/ \E p \in Platforms : \E u \in UserIds : Unbind(p, u)

SpecBinding == InitBinding /\ [][NextBinding]_vars

(***************************************************************************)
(* Claims                                                                  *)
(***************************************************************************)

\* C1: every backoff sleep lasts min(initial * 2^k, max), k being the number
\* of failed connect() calls before this one since the last successful
\* connect (or since construction)
C1_BackoffSchedule ==
    ev.slept # 0 =>
        ev.slept = Min(DEFAULT_RECONNECT_DELAY * Pow2(fails - 1),
                       max_reconnect_delay)

\* C2: as long as start() was called and stop() was not, the supervisor loop
\* is alive (so that every failure and every loss can be followed by another
\* connect attempt)
C2_SupervisorSurvives == wantRun => task = "live"

\* C3: a connect attempt is never begun after a lost connection without a
\* backoff sleep in between
C3_BackoffAfterLoss == ev.conn => ~lost

\* C4: connect() returns True exactly when the first frame was a text frame
\* of type CONNECTION_ACK; the handshake then marks the client connected,
\* stores session id and server info and invokes on_connect; when connect()
\* returns False the client is not connected
C4_ConnectContract ==
    /\ ev.op = "handshake" =>
          /\ connected /\ ev.cb = "on_connect"
          /\ [sid |-> session_id, info |-> server_info] \in Acks
    /\ ev.op = "connect_return" =>
          /\ (ev.ret = "True") <=> (ev.first = "ack")
          /\ ev.ret = "False" => ~connected

\* C5: once stop() has returned and until start() is called, the supervisor
\* task has finished, no heartbeat task is live and the client is not
\* connected
C5_StopIsTerminal ==
    stopped => /\ task # "live"
               /\ hbpc \notin {"new", "sleep"}
               /\ ~connected

\* C6: start() on a connection whose supervisor task is live changes nothing;
\* otherwise it creates the task and returns before the task has run a step;
\* there is never more than one live supervisor task
C6_StartIdempotent ==
    /\ [](liveSup <= 1)
    /\ [][ev'.op = "start" =>
            IF task = "live"
            THEN /\ ev'.ret = "noop"
                 /\ <<running, connected, reconnect_delay, ws, wsRef, session,
                      hb_task, hbpc, task, pc, cancelling, liveSup>>'
                    = <<running, connected, reconnect_delay, ws, wsRef, session,
                        hb_task, hbpc, task, pc, cancelling, liveSup>>
            ELSE /\ ev'.ret = "spawned"
                 /\ task' = "live" /\ pc' = "init"
                 /\ <<running, connected, ws, wsRef, session>>'
                    = <<running, connected, ws, wsRef, session>>]_vars

\* start() was called while the supervisor was in its receive loop
C6_Witness ==
    ev.op = "start" /\ ev.ret = "noop" /\ pc = "recv" /\ connected /\ liveSup = 1

C8_NoDispatchAfterDisconnect == ev.op = "dispatch" => ~ev.preDisc

\* C9: on a connected client (_connected set, _ws an open socket) a HEARTBEAT
\* frame with id X is answered with exactly one frame, HEARTBEAT_ACK with id
\* X, and no callback; a HEARTBEAT_ACK frame with no frame and no callback
C9_HeartbeatReply ==
    (ev.op = "dispatch" /\ ev.preConn /\ ev.preOpen) =>
        /\ ev.frame.type = "HEARTBEAT" =>
              /\ ev.out = << [type |-> "HEARTBEAT_ACK", id |-> ev.frame.id] >>
              /\ ev.cb = "none"
        /\ ev.frame.type = "HEARTBEAT_ACK" =>
              /\ ev.out = << >>
              /\ ev.cb = "none"

\* a connected client answered the HEARTBEAT frame with id "y"
C9_Witness ==
    /\ ev.op = "dispatch" /\ ev.preConn /\ ev.preOpen
    /\ ev.frame = [type |-> "HEARTBEAT", id |-> "y"]
    /\ Len(ev.out) = 1

\* C10: an outbound helper writes a frame exactly when the client is
\* connected, and returns True exactly when it wrote
C10_SendIffConnected ==
    ev.op \in Helpers =>
        /\ (Len(ev.out) = 1) <=> ev.preConn
        /\ (ev.ret = "True") <=> (Len(ev.out) = 1)

\* C11: at no time are two senders inside a write to the socket
C11_SingleWriter == Cardinality(io.writing) <= 1

\* C13: an exception raised by the connect or the disconnect callback never
\* ends the supervisor task, and a connect() whose handshake received
\* CONNECTION_ACK returns True even when the connect callback raised
C13_CallbackFaultsCaught ==
    /\ task # "failed"
    /\ (ev.op = "connect_return" /\ ev.first = "ack") => ev.ret = "True"

\* C14: when the message callback raised, or a frame could not be decoded,
\* the supervisor is back in the receive loop on the same socket, the
\* finally block has not run and the connected flag is what it was
C14_BadFrameSkipped ==
    ev.op \in {"on_message_done", "badjson"} =>
        /\ task = "live" /\ pc = "recv" /\ ~ev.fin
        /\ connected = ev.preConn

\* the message callback raised on an established connection
C14_Witness ==
    /\ ev.op = "on_message_done" /\ ev.ret = "raised"
    /\ pc = "recv" /\ connected /\ ws = "open"

\* C15: the message callback is invoked for a frame exactly when its decoded
\* type is none of HEARTBEAT, HEARTBEAT_ACK, DISCONNECT, ERROR; a frame
\* whose type is missing or unknown invokes no callback, writes nothing and
\* leaves the supervisor in the receive loop
C15_CallbackIffOtherType ==
    ev.op = "dispatch" =>
        LET w == ev.frame.type
            d == IF w \in MessageType THEN w ELSE "ERROR"
        IN  /\ (ev.cb = "on_message") <=>
                  d \notin {"HEARTBEAT", "HEARTBEAT_ACK", "DISCONNECT", "ERROR"}
            /\ w \notin MessageType =>
                  /\ ev.cb = "none" /\ ev.out = << >> /\ pc = "recv"

\* a frame of an unknown type was dispatched and the loop goes on
C15_Witness ==
    /\ ev.op = "dispatch" /\ ev.frame.type = "BOGUS"
    /\ ev.cb = "none" /\ pc = "recv" /\ ev.preConn

\* C12: frames are dispatched in the order they arrived, none skipped, and
\* the dispatch of a frame begins only when the dispatch of every earlier
\* frame (its callback included) is complete
C12_DispatchInOrder ==
    /\ Len(io.dispatched) <= Len(io.arrived)
    /\ io.dispatched = SubSeq(io.arrived, 1, Len(io.dispatched))
    /\ io.open <= 1
    /\ ev.op = "dispatch" => io.open = IF pc = "recv" THEN 0 ELSE 1

\* three frames arrived, the second is in its callback, the third waits
C12_Witness ==
    /\ Len(io.arrived) = 3 /\ Len(io.dispatched) = 2 /\ Len(io.inbox) = 1
    /\ io.arrived[1] # io.arrived[2]
    /\ pc = "on_message" /\ io.open = 1


\* C16: add_server with an id that has no entry stores a new entry with the
\* given configuration and returns true; with an id that has an entry it
\* returns false and changes neither the map nor any connection; so the map
\* never holds two entries for one id.
C16_AddOncePerId ==
    /\ [](\A i, j \in Entries(reg) : reg.servers[i].id = reg.servers[j].id => i = j)
    /\ [][reg'.ev.op = "add_server" =>
            IF Lookup(reg, reg'.ev.id) = 0
            THEN /\ reg'.ev.ret = "True"
                 /\ Lookup(reg', reg'.ev.id) = Len(reg.objs) + 1
                 /\ reg'.objs[Len(reg.objs) + 1].config.server_id = reg'.ev.id
                 /\ \A o \in DOMAIN reg.objs : reg'.objs[o] = reg.objs[o]
                 /\ \A id \in RegIds \ {reg'.ev.id} : Lookup(reg', id) = Lookup(reg, id)
            ELSE /\ reg'.ev.ret = "False"
                 /\ reg'.servers = reg.servers
                 /\ reg'.objs = reg.objs]_vars

\* add_server was refused for an id whose entry is a started connection, and
\* the other id has an entry too
C16_Witness ==
    /\ reg.ev.op = "add_server" /\ reg.ev.ret = "False"
    /\ Lookup(reg, reg.ev.id) # 0
    /\ reg.objs[Lookup(reg, reg.ev.id)].task = "live"
    /\ Cardinality(Entries(reg)) = 2

\* C17: remove_server takes the entry of the id out of the map and returns
\* true, or returns false and changes nothing when the id has no entry; in
\* both cases every connection, the removed one included, keeps its flags
\* and its tasks.
C17_RemoveOnlyUnmaps ==
    [][reg'.ev.op = "remove_server" =>
          /\ reg'.objs = reg.objs
          /\ \A id \in RegIds \ {reg'.ev.id} : Lookup(reg', id) = Lookup(reg, id)
          /\ Lookup(reg', reg'.ev.id) = 0
          /\ IF Lookup(reg, reg'.ev.id) = 0
             THEN reg'.ev.ret = "False" /\ reg'.servers = reg.servers
             ELSE reg'.ev.ret = "True"]_vars

\* a connected connection was removed: it is still connected and its
\* supervisor is still in the receive loop
C17_Witness ==
    /\ reg.ev.op = "remove_server" /\ reg.ev.ret = "True"
    /\ \E o \in DOMAIN reg.objs :
          /\ reg.objs[o].config.server_id = reg.ev.id
          /\ \A i \in Entries(reg) : reg.servers[i].obj # o
          /\ reg.objs[o].task = "live" /\ reg.objs[o].sup = "recv"
          /\ reg.objs[o].running /\ reg.objs[o].connected


\* the connections that have an entry in _servers
EntryObjs(r) == {r.servers[i].obj : i \in Entries(r)}

\* C18: start_all starts exactly the entries whose config is enabled;
\* stop_all returns normally having stopped every entry that was in the map
\* when it was called; start_server and stop_server start or stop the entry
\* of the id and no other and return true, or return false and act on no
\* connection when the id has no entry.
C18_StartStopExact ==
    /\ reg.ev.op = "start_all" =>
          /\ reg.ev.acted = {o \in EntryObjs(reg) : reg.objs[o].config.enabled}
          /\ \A o \in reg.ev.acted : reg.objs[o].task = "live"
    /\ reg.ev.op \in {"stop_all_return", "stop_all_raised"} =>
          /\ reg.ev.ret = "None"
          /\ reg.ev.todo \subseteq reg.ev.acted
    /\ reg.ev.op = "start_server" =>
          IF reg.ev.ret = "True"
          THEN /\ reg.ev.acted = {Lookup(reg, reg.ev.id)}
               /\ reg.objs[Lookup(reg, reg.ev.id)].task = "live"
          ELSE Lookup(reg, reg.ev.id) = 0 /\ reg.ev.acted = {}
    /\ (reg.ev.op = "stop_server" /\ reg.ss = 0) =>
          IF reg.ev.ret = "True"
          THEN \E o \in DOMAIN reg.objs :
                  /\ reg.ev.acted = {o}
                  /\ reg.objs[o].config.server_id = reg.ev.id
                  /\ reg.objs[o].task # "live"
                  /\ ~reg.objs[o].running /\ ~reg.objs[o].connected
          ELSE Lookup(reg, reg.ev.id) = 0 /\ reg.ev.acted = {}


\* C19: send_chat_response and send_incoming_message return false without
\* calling any client helper when the id has no entry or its connection is
\* not connected; otherwise they call the helper of that connection's client
\* and return what it returns.
C19_SendersGuarded ==
    reg.ev.op \in {"send_chat_response", "send_incoming_message"} =>
        LET o == Lookup(reg, reg.ev.id)
        IN  IF o # 0 /\ reg.objs[o].connected
            THEN reg.ev.wrote = o /\ reg.ev.ret = reg.ev.res
                 /\ reg.ev.res \in {"True", "False"}
            ELSE reg.ev.wrote = 0 /\ reg.ev.ret = "False"

\* a sender was called for an entry whose connection is started and not
\* connected
C19_Witness ==
    /\ reg.ev.op \in {"send_chat_response", "send_incoming_message"}
    /\ Lookup(reg, reg.ev.id) # 0
    /\ reg.objs[Lookup(reg, reg.ev.id)].task = "live"
    /\ ~reg.objs[Lookup(reg, reg.ev.id)].connected
    /\ reg.ev.ret = "False" /\ reg.ev.wrote = 0


\* C20: once a handler is registered for a kind of event, every event of
\* that kind from a connection of the registry goes to the handler
\* registered last, and to no handler registered before it, whenever the
\* connection was added.
C20_LastRegistrationWins ==
    (reg.ev.op = "event" /\ Slot(reg, reg.ev.kind) # "None") =>
        reg.ev.to = Slot(reg, reg.ev.kind)


\* C21: an add_server or remove_server that runs while stop_all is suspended
\* does not break it: stop_all returns normally and has stopped every
\* connection that had an entry when it was called and still has it.
\* (start_all never suspends, so nothing runs in the middle of it.)
C21_IterationSurvivesChange ==
    reg.ev.op \in {"stop_all_return", "stop_all_raised"} =>
        /\ reg.ev.ret = "None"
        /\ (reg.ev.todo \cap EntryObjs(reg)) \subseteq reg.ev.acted


\* C22: get_all_servers returns a copy of the map: the returned map holds
\* what the registry held at the call, a later add_server or remove_server
\* does not change it, and a key deleted from it or stored in it does not
\* change the registry; get_connected_servers returns exactly the entries
\* whose connection is connected at the call.
C22_LookupsAreSnapshots ==
    /\ [](reg.ev.op = "get_connected_servers" =>
            reg.ev.acted = {o \in EntryObjs(reg) : reg.objs[o].connected})
    /\ [][/\ reg'.ev.op = "get_all_servers" =>
                SnapMap(reg') = AsMap(reg) /\ AsMap(reg') = AsMap(reg)
          /\ reg'.ev.op \in {"add_server", "remove_server"} =>
                SnapMap(reg') = SnapMap(reg)
          /\ reg'.ev.op \in {"snap_del", "snap_put"} =>
                AsMap(reg') = AsMap(reg) /\ reg'.objs = reg.objs]_vars

\* the caller holds a map with an entry the registry has since removed, the
\* registry holds an entry added since, and a connection is connected
C22_Witness ==
    /\ reg.snap.held
    /\ reg.ev.op \in {"add_server", "remove_server"}
    /\ \E k \in DOMAIN IdAt : SnapMap(reg)[k] # 0 /\ AsMap(reg)[k] # SnapMap(reg)[k]
    /\ \E k \in DOMAIN IdAt : SnapMap(reg)[k] = 0 /\ AsMap(reg)[k] # 0
    /\ \E o \in EntryObjs(reg) : reg.objs[o].connected


\* C23: MCMessage.from_dict raises for no JSON object whose type is a
\* string or is missing; the decoded type is the MessageType of that string
\* and ERROR when there is none; a missing source, target and replyTo decode
\* to None, None and "".
C23_DecodeTotal ==
    fx.op = "decoded" =>
        /\ ~fx.got.raised
        /\ LET m == fx.got.v[1]
               w == Get(fx.data.type, "ERROR")
           IN  /\ m.type = IF w \in MessageType THEN w ELSE "ERROR"
               /\ fx.data.source = << >> => m.source = << >>
               /\ fx.data.target = << >> => m.target = << >>
               /\ fx.data.replyTo = << >> => m.reply_to = ""

\* C24: for every message m without a source, from_dict(m.to_dict()) does
\* not raise and is m, field by field.
C24_RoundTrip ==
    (fx.op = "roundtrip" /\ fx.m.source = << >>) =>
        /\ ~fx.got.raised
        /\ fx.got.v = <<fx.m>>

\* a message with a target that names a player, an empty payload and no
\* reply_to went through to_dict and from_dict
C24_Witness ==
    /\ fx.op = "roundtrip" /\ fx.m.source = << >>
    /\ fx.m.target # << >> /\ fx.m.target[1].player_name = "n1"
    /\ fx.m.target[1].player_uuid = ""
    /\ fx.m.payload = {} /\ fx.m.reply_to = ""
    /\ fx.data.payload = << >> /\ fx.data.replyTo = << >>

\* C25: to_dict always writes type, id and timestamp, never writes source,
\* and writes target, payload and replyTo exactly when the field is not
\* None, not {} and not "".
C25_EncodeKeys ==
    fx.op = "encoded" =>
        /\ fx.data.type # << >> /\ fx.data.id # << >> /\ fx.data.timestamp # << >>
        /\ fx.data.source = << >>
        /\ (fx.data.target # << >>) <=> (fx.m.target # << >>)
        /\ (fx.data.payload # << >>) <=> (fx.m.payload # {})
        /\ (fx.data.replyTo # << >>) <=> (fx.m.reply_to # "")

\* a message with a source, a target, an empty id, timestamp 0, an empty
\* payload and a reply_to was encoded
C25_Witness ==
    /\ fx.op = "encoded"
    /\ fx.m.source # << >> /\ fx.m.target # << >>
    /\ fx.m.id = "" /\ fx.m.timestamp = 0
    /\ fx.m.payload = {} /\ fx.m.reply_to = "r1"


\* C26: no operation of the RestClient raises for a refused connection, a
\* timeout, any other failure of the exchange or a non-zero code; code 0
\* with data gives the parsed value (with an empty error string from the
\* operations that return one); a failure of the exchange gives None, [] with
\* total 0 or False, and a non-empty error string from every operation that
\* returns a string (health_check returns a bare boolean).
C26_ResultNotRaise ==
    fx.op = "rest_done" =>
        /\ ~fx.res.raised
        /\ (fx.x.k = "body" /\ fx.x.obj /\ Get(fx.x.code, 0) = 0
              /\ Get(fx.x.data, "null") = "good") =>
               /\ fx.fn # "health_check" => fx.res.value = "parsed"
               /\ fx.fn \notin {"health_check", "execute_command"} => fx.res.err = ""
        /\ fx.x.k = "raise" =>
               /\ fx.res.value \in {"None", "[]", "False"}
               /\ fx.fn = "get_players" => fx.res.total = "0"
               /\ fx.fn # "health_check" => fx.res.err # ""

\* C27: get_logs sends lines = min(n, 1000), never more than 1000, and sends
\* level, keyword, startTime and endTime only when the argument was given.
C27_LogLinesClamped ==
    (fx.op = "rest_done" /\ fx.fn = "get_logs") =>
        /\ fx.params.lines = <<IF fx.args.lines < 1000 THEN fx.args.lines ELSE 1000>>
        /\ fx.params.lines[1] <= 1000
        /\ fx.params.level # << >> => fx.params.level = fx.args.level
        /\ fx.params.keyword # << >> => fx.params.keyword = fx.args.keyword
        /\ fx.params.startTime # << >> => fx.params.startTime = fx.args.start_time
        /\ fx.params.endTime # << >> => fx.params.endTime = fx.args.end_time

\* get_logs was called with lines=5000, a level and no keyword
C27_Witness ==
    /\ fx.op = "rest_done" /\ fx.fn = "get_logs"
    /\ fx.args.lines = 5000 /\ fx.params.lines = <<1000>>
    /\ fx.args.level = <<"INFO">> /\ fx.params.level = <<"INFO">>
    /\ fx.args.keyword = << >> /\ fx.params.keyword = << >>


\* disconnect() returned in the last step: stop() is past the close of the
\* socket and of the session
DisconnectReturned ==
    /\ ev.op \in {"stop", "stop_ws_closed", "stop_sess_closed"}
    /\ stoppc \notin {"ws_close", "sess_close"}

\* C28: whenever a call of disconnect() returns, in whatever state it was
\* made, the running flag and the connected flag are false, there is no
\* heartbeat task and the socket is closed.
C28_DisconnectLeavesDown ==
    DisconnectReturned =>
        /\ ~running /\ ~connected
        /\ ~hb_task
        /\ ws \in {"none", "closed"}

\* the heartbeat task can still run: created and neither finished nor cancelled
HbLive == hbpc \in {"new", "sleep", "write"}

\* the last step created a heartbeat task (start(), line 155)
HbCreated ==
    /\ ev.op \in {"sup_start", "connect_return", "sleep_done", "on_disconnect_done"}
    /\ pc = "recv" \/ ev.fin

\* the last step wrote a HEARTBEAT frame
HbSent == \E i \in 1..Len(ev.out) : ev.out[i].type = "HEARTBEAT"

\* C29: a heartbeat task is created only when no earlier heartbeat task can
\* still run, so at most one is live, and a HEARTBEAT frame is written only by
\* a step that began with the connected flag true and the client running
C29_HeartbeatOnlyConnected ==
    [][/\ HbCreated' => ~HbLive
       /\ HbSent' => (ev'.op = "hb_tick" /\ ev'.preConn /\ ev'.preRun /\ HbLive)]_vars

C29_Witness ==
    /\ HbSent /\ ev.op = "hb_tick" /\ ev.preConn
    /\ fails > 0 /\ liveSup = 1

\* C30: the session id and the ServerInfo snapshot change only in the step
\* that accepts a CONNECTION_ACK, and then both take the values of that frame
C30_IdentityOnlyAtHandshake ==
    [][(session_id' # session_id \/ server_info' # server_info) =>
          /\ ev'.op = "handshake" /\ ev'.first = "ack" /\ connected'
          /\ \E a \in Acks : session_id' = a.sid /\ server_info' = a.info]_vars

\* a connection nobody has started: no supervisor task, not running, not
\* connected
Unstarted(c) == c.task = "none" /\ c.sup = "-" /\ ~c.running /\ ~c.connected

\* C31: the connection a successful add_server creates has no supervisor
\* task, is not running and not connected, and a connection leaves that state
\* only in a start_server or start_all step that starts it
C31_AddDoesNotStart ==
    [][/\ (reg'.ev.op = "add_server" /\ reg'.ev.ret = "True") =>
             /\ Len(reg'.objs) = Len(reg.objs) + 1
             /\ Unstarted(reg'.objs[Len(reg'.objs)])
       /\ \A o \in DOMAIN reg.objs :
             (Unstarted(reg.objs[o]) /\ ~Unstarted(reg'.objs[o])) =>
                 /\ reg'.ev.op \in {"start_server", "start_all"}
                 /\ o \in reg'.ev.acted]_vars

C31_Witness ==
    /\ reg.ev.op \in {"stop_all_return", "sup_begin"}
    /\ Len(reg.objs) = 2
    /\ Unstarted(reg.objs[2]) /\ Lookup(reg, "b") = 2
    /\ reg.objs[1].task # "none"

\* C32: a connect() that returns True had the connected flag set and one
\* that returns False had it clear, so the backoff sleep that follows a False
\* begins with the flag clear
C32_ConnectResultIsFlag ==
    ev.op = "connect_return" =>
        /\ (ev.ret = "True") <=> ev.preConn
        /\ pc = "sleep" => ~connected

\* C33: the backoff sleep after the first failed connect() of a supervisor
\* task lasts the initial delay, whatever the delay had grown to before the
\* connection was stopped and started again
C33_BackoffForgottenAtStop ==
    [][(ev'.slept # 0 /\ ~runFailed) =>
          ev'.slept = DEFAULT_RECONNECT_DELAY]_vars

\* C34: when stop_all returns, no connection the registry ever created has
\* a live supervisor task, is running or is connected
C34_StopAllStopsEverything ==
    reg.ev.op = "stop_all_return" =>
        \A o \in DOMAIN reg.objs :
            /\ reg.objs[o].task # "live"
            /\ ~reg.objs[o].running /\ ~reg.objs[o].connected

\* C35: the reconnect delay is at least the initial delay and at most the
\* configured maximum, whatever maximum the client was built with
C35_DelayWithinBounds ==
    /\ DEFAULT_RECONNECT_DELAY <= fx.d
    /\ fx.d <= fx.max

\* C36: once stop() was called and until start() is called again, no step
\* sets the connected flag and no step invokes the connect callback
C36_NoConnectAfterStop ==
    stopReq =>
        /\ ev.cb # "on_connect"
        /\ connected => ev.preConn

\* C37: an operation gives the absent value (None, or [] with total 0) with
\* an empty error string only for a body that reports success and carries
\* data; code 0 with null or empty data, and a non-zero code without a
\* message, are not answered that way
C37_ResultUnambiguous ==
    (/\ fx.op = "rest_done"
     /\ fx.fn \in RequestOps \ {"execute_command"}
     /\ fx.res.value \in {"None", "[]"} /\ fx.res.err = "") =>
        /\ fx.x.k = "body" /\ fx.x.obj
        /\ Get(fx.x.code, 0) = 0
        /\ Get(fx.x.data, "null") = "good"

\* the places of a binding key in the index
Places(k) ==
    {<<n, i>> \in LowerNames \X (1..Cardinality(BindingKeys)) :
        /\ fx.mc_name_index[n] # << >>
        /\ i <= Len(fx.mc_name_index[n][1])
        /\ fx.mc_name_index[n][1][i] = k}

\* the index and the binding map agree
IndexAgrees ==
    /\ \A n \in LowerNames :
          fx.mc_name_index[n] # << >> =>
             /\ fx.mc_name_index[n][1] # << >>
             /\ \A i \in 1..Len(fx.mc_name_index[n][1]) :
                   LET k == fx.mc_name_index[n][1][i]
                   IN  /\ fx.bindings[k] # << >>
                       /\ lower(fx.bindings[k][1].mc_player_name) = n
    /\ \A k \in BindingKeys :
          Cardinality(Places(k)) = IF fx.bindings[k] # << >> THEN 1 ELSE 0

\* C38: after every bind and unbind the index lists exactly the bound keys,
\* each once and under the lower-cased name of its binding, and has no empty
\* list; a bind of a bound key and an unbind of an unbound key return False
\* and change neither map
C38_IndexAgrees ==
    [][/\ IndexAgrees'
       /\ (fx'.op = "bind" /\ fx.bindings[fx'.key] # << >>) => fx'.ret = "False"
       /\ (fx'.op = "unbind" /\ fx.bindings[fx'.key] = << >>) => fx'.ret = "False"
       /\ fx'.ret = "False" =>
             /\ fx'.bindings = fx.bindings
             /\ fx'.mc_name_index = fx.mc_name_index]_vars

C38_Witness ==
    /\ fx.op = "unbind" /\ fx.ret = "True"
    /\ fx.mc_name_index["alex"] = << >>
    /\ fx.mc_name_index["steve"] # << >>
    /\ Len(fx.mc_name_index["steve"][1]) = 2
    /\ \E i, j \in 1..2 :
          fx.bindings[fx.mc_name_index["steve"][1][i]][1].mc_player_name
             # fx.bindings[fx.mc_name_index["steve"][1][j]][1].mc_player_name

====
